---- MODULE Spec2Model ----
(***************************************************************************)
(* A model of src/WorkerHandler.js: one WorkerHandler, the worker it owns  *)
(* and the deferreds of the tasks submitted to it.  Every handler of the   *)
(* source (exec, terminate, the "message", "error" and "exit" listeners,   *)
(* the timers) is one action; a handler that calls another one (the        *)
(* message listener calling terminate, terminate calling cleanup) is the   *)
(* composition of the operators that model them.                           *)
(***************************************************************************)
EXTENDS Integers, Sequences, FiniteSets, TLC

\* ---------------------------------------------------------------- bounds
MaxSteps == 4          \* handler invocations in one behaviour
MaxCalls == 3          \* of which calls made by the owner: exec, terminate,
                       \* terminateAndNotify, and cancellations of a task
MaxErrors == 1         \* transport "error" events
MaxTime == 1           \* milliseconds the clock advances in one behaviour

\* ------------------------------------------------------------- constants
\* TERMINATE_METHOD_ID, the one message that is not a request: requests are
\* modelled by their id (1, 2, ...), the termination message by 0.
TERMINATE_METHOD_ID == 0

TaskIds == 1..MaxCalls
CallIds == 1..MaxCalls
WorkerTypes == {"process", "thread", "web"}

\* the errors the handler produces or passes on
NoErr == "none"
ErrWorkerTerminated == "Worker terminated"
ErrIsTerminated == "Worker is terminated"
ErrAlreadyKilled == "worker already killed!"
ErrTransport == "transport error"
ErrUnexpectedExit == "Workerpool Worker terminated Unexpectedly"
ErrTask == "task error"
ErrCancellation == "CancellationError"
ErrTimeout == "TimeoutError"
ErrTypeError == "TypeError"

\* a termination callback: none, one given by the owner to terminate (n is
\* the number of the call), the one terminateAndNotify builds for the owner
\* (n as before), or the one it builds for exec's cancellation handler (n is
\* the task id)
NoCallback == [kind |-> "none", n |-> 0]
Callbacks ==
    {NoCallback}
      \cup [kind : {"user", "notify"}, n : CallIds]
      \cup [kind : {"cancel"}, n : TaskIds]

VARIABLES
    \* options, fixed at construction
    workerType, hasScript, concurrency, maxExec, markNotReadyAfterExec,
    readyTimeoutDuration, initReadyTimeoutDuration,
    \* fields of the handler and of its worker object
    hasWorker,          \* me.worker != null
    ready,              \* worker.ready
    killed,             \* worker.killed
    terminating, terminated,
    terminationHandler,
    onWorkerExitCb,     \* _onWorkerExit still holds the owner's callback
    readyTimeoutTimer,  \* me.readyTimeoutTimer is armed
    requestQueue, processing, lastId, requestCount, responseCount,
    started,            \* processing[id].started, kept for every task
    totalTime, minTime, maxTime, lastTime,
    exitListeners,      \* once("exit") listeners terminate has registered
    exitTimers,         \* cleanExitTimeout timers still armed
    \* the transport and the worker behind it
    sent,               \* messages handed to worker.send, in order
    workerExited,       \* the "exit" event has been emitted
    errorEvents,        \* "error" events emitted so far
    now,                \* Date.now(), counted from the construction
    \* the deferreds
    promise,            \* resolver.promise of each task
    future,             \* the promise exec returned for each task
    notifyFuture,       \* the promise of each owner terminateAndNotify call
    notifyTimeout,      \* the timeout argument of each such call
    notifyElapsed,      \* that timeout has elapsed since the call
    \* observation of what the handlers did
    settleCalls,        \* resolve/reject invocations on each task's resolver
    callbackCalls,      \* invocations of each termination callback
    onWorkerExitCalls,  \* invocations of the owner's onWorkerExit
    recorded,           \* every timeSpent the listener has measured
    window,             \* those measured since the last stats reset
    calls,              \* calls the owner has made
    steps,              \* handlers that have run
    effects             \* what the last handler did, in order

optionVars ==
    <<workerType, hasScript, concurrency, maxExec, markNotReadyAfterExec,
      readyTimeoutDuration, initReadyTimeoutDuration>>

handlerVars ==
    <<hasWorker, ready, killed, terminating, terminated, terminationHandler,
      onWorkerExitCb, readyTimeoutTimer, requestQueue, processing, lastId,
      requestCount, responseCount, started, totalTime, minTime, maxTime,
      lastTime, exitListeners, exitTimers, sent, promise, future,
      notifyFuture, settleCalls, callbackCalls, onWorkerExitCalls, recorded,
      window, effects>>

vars ==
    <<optionVars, handlerVars, workerExited, errorEvents, now, notifyTimeout,
      notifyElapsed, calls, steps>>

\* The handler, its worker object and the deferreds as one record, so that a
\* handler that calls another is the composition of their operators.  threw
\* says that the handler running has thrown: its caller stops there.
Self ==
    [hasWorker |-> hasWorker, ready |-> ready, killed |-> killed,
     terminating |-> terminating, terminated |-> terminated,
     terminationHandler |-> terminationHandler,
     onWorkerExitCb |-> onWorkerExitCb,
     readyTimeoutTimer |-> readyTimeoutTimer,
     requestQueue |-> requestQueue, processing |-> processing,
     lastId |-> lastId, requestCount |-> requestCount,
     responseCount |-> responseCount, started |-> started,
     totalTime |-> totalTime, minTime |-> minTime, maxTime |-> maxTime,
     lastTime |-> lastTime, exitListeners |-> exitListeners,
     exitTimers |-> exitTimers, sent |-> sent, promise |-> promise,
     future |-> future, notifyFuture |-> notifyFuture,
     settleCalls |-> settleCalls, callbackCalls |-> callbackCalls,
     onWorkerExitCalls |-> onWorkerExitCalls, recorded |-> recorded,
     window |-> window, effects |-> <<>>,
     threw |-> FALSE]

Install(s) ==
    /\ effects' = s.effects
    /\ lastId' = s.lastId
    /\ hasWorker' = s.hasWorker
    /\ ready' = s.ready
    /\ killed' = s.killed
    /\ terminating' = s.terminating
    /\ terminated' = s.terminated
    /\ terminationHandler' = s.terminationHandler
    /\ onWorkerExitCb' = s.onWorkerExitCb
    /\ readyTimeoutTimer' = s.readyTimeoutTimer
    /\ requestQueue' = s.requestQueue
    /\ processing' = s.processing
    /\ requestCount' = s.requestCount
    /\ responseCount' = s.responseCount
    /\ exitListeners' = s.exitListeners
    /\ exitTimers' = s.exitTimers
    /\ sent' = s.sent
    /\ promise' = s.promise
    /\ future' = s.future
    /\ notifyFuture' = s.notifyFuture
    /\ settleCalls' = s.settleCalls
    /\ callbackCalls' = s.callbackCalls
    /\ onWorkerExitCalls' = s.onWorkerExitCalls
    /\ started' = s.started
    /\ totalTime' = s.totalTime
    /\ minTime' = s.minTime
    /\ maxTime' = s.maxTime
    /\ lastTime' = s.lastTime
    /\ recorded' = s.recorded
    /\ window' = s.window

\* one thing a handler did: k is what, id the task, message or callback
\* number it concerns (0 when none), e the error passed (NoErr when none)
Effect(k, id, e) == [k |-> k, id |-> id, e |-> e]
Did(s, k, id, e) == [s EXCEPT !.effects = Append(@, Effect(k, id, e))]

\* ------------------------------------------------------------ deferreds
\* Promise.js is not part of the sources at hand; a deferred is modelled as
\* the specification describes it: a handle that settles once, later
\* resolve/reject calls being ignored, and whose callbacks run synchronously.
\* A promise is "unused", "pending", "resolved" or the error it rejected with.
Settled(p) == p \notin {"unused", "pending"}

\* resolver.resolve / resolver.reject on the resolver of task id.  The
\* promise exec returned follows it: the catch handler of exec rethrows
\* every error that is no cancellation or timeout.
settle(s, id, outcome) ==
    LET c == [Did(s, IF outcome = "resolved" THEN "resolve" ELSE "reject",
                  id, IF outcome = "resolved" THEN NoErr ELSE outcome)
                EXCEPT !.settleCalls[id] = @ + 1]
    IN  IF c.promise[id] = "pending"
        THEN [c EXCEPT !.promise[id] = outcome, !.future[id] = outcome]
        ELSE c

\* for (var id in processing) resolver.reject(err): integer keys are
\* visited in ascending order
RECURSIVE rejectAll(_, _, _)
rejectAll(s, ids, err) ==
    IF ids = {} THEN s
    ELSE LET id == CHOOSE i \in ids : \A j \in ids : i <= j
         IN  rejectAll(settle(s, id, err), ids \ {id}, err)

\* --------------------------------------------------- the handler's parts
\* processing = Object.create(null)
clearProcessing(s) == [Did(s, "clear", 0, NoErr) EXCEPT !.processing = {}]

\* onWorkerExit without the line that forgets the owner's callback
onWorkerExitKeepsCallback(s) ==
    IF s.onWorkerExitCb
    THEN [Did(s, "onWorkerExit", 0, NoErr) EXCEPT !.onWorkerExitCalls = @ + 1]
    ELSE s

onWorkerExit(s) ==
    IF s.onWorkerExitCb
    THEN [Did(s, "onWorkerExit", 0, NoErr)
            EXCEPT !.onWorkerExitCalls = @ + 1, !.onWorkerExitCb = FALSE]
    ELSE s

onWorkerReady(s) == Did(s, "onWorkerReady", 0, NoErr)

clearReadyTimeout(s) == [s EXCEPT !.readyTimeoutTimer = FALSE]

setReadyTimeout(s, timeoutDuration) ==
    IF timeoutDuration = 0
    THEN clearReadyTimeout(s)
    ELSE [clearReadyTimeout(s) EXCEPT !.readyTimeoutTimer = TRUE]

busy(s) == Cardinality(s.processing) >= concurrency

\* available without the test of worker.ready
availableIgnoresReady(s) ==
    /\ s.hasWorker
    /\ ~s.terminated
    /\ ~s.terminating
    /\ (maxExec = 0 \/ s.requestCount < maxExec)
    /\ ~busy(s)

available(s) ==
    /\ s.hasWorker
    /\ ~s.terminated
    /\ ~s.terminating
    /\ s.ready
    /\ (maxExec = 0 \/ s.requestCount < maxExec)
    /\ ~busy(s)

\* worker.send(message)
send(s, message) ==
    [Did(s, "send", message, NoErr) EXCEPT !.sent = Append(@, message)]

\* requestQueue.push(message)
enqueue(s, message) ==
    [Did(s, "queue", message, NoErr) EXCEPT !.requestQueue = Append(@, message)]

RECURSIVE sendAll(_, _)
sendAll(s, q) ==
    IF q = <<>> THEN s ELSE sendAll(send(s, Head(q)), Tail(q))

\* dispatchQueuedRequests sending the newest request first
RECURSIVE sendAllBackwards(_, _)
sendAllBackwards(s, q) ==
    IF q = <<>> THEN s
    ELSE sendAllBackwards(send(s, q[Len(q)]), SubSeq(q, 1, Len(q) - 1))

dispatchNewestFirst(s) ==
    sendAllBackwards([s EXCEPT !.requestQueue = <<>>], s.requestQueue)

dispatchQueuedRequests(s) ==
    sendAll([s EXCEPT !.requestQueue = <<>>], s.requestQueue)

\* the callback terminate was given, invoked by cleanup with (err, me)
invokeTerminationHandler(s, err) ==
    LET cb == s.terminationHandler
        c  == [Did(s, "callback_" \o cb.kind, cb.n, err)
                 EXCEPT !.callbackCalls[cb] = @ + 1]
    IN  CASE cb.kind = "notify" ->
               \* terminateAndNotify: resolver.reject(err) / resolver.resolve(worker)
               IF c.notifyFuture[cb.n] = "pending"
               THEN [c EXCEPT !.notifyFuture[cb.n] =
                               IF err = NoErr THEN "resolved" ELSE err]
               ELSE c
          [] cb.kind = "cancel" ->
               \* exec: terminateAndNotify(true).then(throw error, throw err)
               IF c.future[cb.n] = "pending"
               THEN [c EXCEPT !.future[cb.n] =
                               IF err = NoErr THEN c.promise[cb.n] ELSE err]
               ELSE c
          [] OTHER -> c

cleanup(s, err) ==
    LET c == [Did(s, "cleanup", 0, err)
                EXCEPT !.terminated = TRUE, !.hasWorker = FALSE,
                       !.terminating = FALSE]
    IN  IF c.terminationHandler # NoCallback
        THEN invokeTerminationHandler(c, err)
        ELSE IF err # NoErr
             THEN [Did(c, "throw", 0, err) EXCEPT !.threw = TRUE]
             ELSE c

\* worker.kill(): a child process that has not exited records the signal
\* in worker.killed
kill(s) ==
    [Did(s, "kill", 0, NoErr)
       EXCEPT !.killed = IF workerType = "process" /\ ~workerExited
                  THEN TRUE ELSE @]

\* ------------------------------------------------------------- terminate
\* the substrate shutdown of terminate, reached when the handler is not busy
shutdown(s) ==
    IF ~s.hasWorker THEN cleanup(s, NoErr)
    ELSE IF workerType \in {"process", "thread"}
    THEN \* typeof worker.kill === "function"
         IF s.killed THEN cleanup(s, ErrAlreadyKilled)
         ELSE IF workerType = "process"
         THEN LET c == [s EXCEPT !.exitTimers = @ + 1,
                                 !.exitListeners = @ + 1]
              IN  IF c.ready THEN send(c, TERMINATE_METHOD_ID)
                  ELSE enqueue(c, TERMINATE_METHOD_ID)
         ELSE cleanup([kill(s) EXCEPT !.killed = TRUE], NoErr)
    ELSE \* a web worker: worker.terminate()
         cleanup([Did(s, "terminate", 0, NoErr) EXCEPT !.killed = TRUE], NoErr)

\* terminate without the line that empties the in-flight table
terminateKeepsTable(s, force, callback) ==
    LET c1 == clearReadyTimeout(s)
        c2 == IF force
              THEN rejectAll(c1, c1.processing, ErrWorkerTerminated)
              ELSE c1
        c3 == IF callback # NoCallback
              THEN [c2 EXCEPT !.terminationHandler = callback]
              ELSE c2
    IN  IF ~busy(c3) THEN shutdown(c3)
        ELSE [c3 EXCEPT !.terminating = TRUE]

terminate(s, force, callback) ==
    LET c1 == clearReadyTimeout(s)
        c2 == IF force
              THEN clearProcessing(
                       rejectAll(c1, c1.processing, ErrWorkerTerminated))
              ELSE c1
        c3 == IF callback # NoCallback
              THEN [c2 EXCEPT !.terminationHandler = callback]
              ELSE c2
    IN  IF ~busy(c3) THEN shutdown(c3)
        ELSE [c3 EXCEPT !.terminating = TRUE]

\* ------------------------------------------------------------------ exec
\* exec allocating a new id only for a request it sends at once
execKeepsLastIdWhenQueued(s) ==
    LET id == s.lastId + 1
        c  == [s EXCEPT !.lastId = IF s.ready THEN id ELSE @,
                        !.processing = @ \cup {id},
                        !.started[id] = now,
                        !.requestCount = @ + 1,
                        !.promise[id] = "pending",
                        !.future[id] = "pending"]
    IN  IF c.terminated THEN settle(c, id, ErrIsTerminated)
        ELSE IF c.ready THEN send(c, id)
        ELSE enqueue(c, id)

\* exec without the test of terminated
execIgnoresTerminated(s) ==
    LET id == s.lastId + 1
        c  == [s EXCEPT !.lastId = id,
                        !.processing = @ \cup {id},
                        !.started[id] = now,
                        !.requestCount = @ + 1,
                        !.promise[id] = "pending",
                        !.future[id] = "pending"]
    IN  IF c.ready THEN send(c, id)
        ELSE enqueue(c, id)

exec(s) ==
    LET id == s.lastId + 1
        c  == [s EXCEPT !.lastId = id,
                        !.processing = @ \cup {id},
                        !.started[id] = now,
                        !.requestCount = @ + 1,
                        !.promise[id] = "pending",
                        !.future[id] = "pending"]
    IN  IF c.terminated THEN settle(c, id, ErrIsTerminated)
        ELSE IF c.ready THEN send(c, id)
        ELSE enqueue(c, id)

\* the catch handler of exec terminating without force
onCancelGraceful(s, id, error) ==
    LET c == [s EXCEPT !.promise[id] = error, !.processing = @ \ {id}]
    IN  terminate(c, FALSE, [kind |-> "cancel", n |-> id])

\* the catch handler of exec, run when the task's promise rejects with a
\* CancellationError or a TimeoutError
onCancel(s, id, error) ==
    LET c == [s EXCEPT !.promise[id] = error, !.processing = @ \ {id}]
    IN  terminate(c, TRUE, [kind |-> "cancel", n |-> id])

\* ----------------------------------------------------------------- stats
\* minTime starts at Infinity, which no integer stands for: a time is a
\* record, finite or not
Infinity == [finite |-> FALSE, value |-> 0]
Finite(n) == [finite |-> TRUE, value |-> n]

\* timeSpent < m, for an integer timeSpent and a time m
LessThan(timeSpent, m) == ~m.finite \/ timeSpent < m.value

\* the stats update of the message listener that never raises maxTime
recordTimeKeepsMax(s, timeSpent) ==
    [s EXCEPT !.lastTime = timeSpent,
              !.minTime = IF LessThan(timeSpent, @)
                          THEN Finite(timeSpent) ELSE @,
              !.totalTime = @ + timeSpent,
              !.recorded = Append(@, timeSpent),
              !.window = Append(@, timeSpent)]

\* the stats update of the message listener, for a terminal response
\* that took timeSpent
recordTime(s, timeSpent) ==
    [s EXCEPT !.lastTime = timeSpent,
              !.maxTime = IF timeSpent > @ THEN timeSpent ELSE @,
              !.minTime = IF LessThan(timeSpent, @)
                          THEN Finite(timeSpent) ELSE @,
              !.totalTime = @ + timeSpent,
              !.recorded = Append(@, timeSpent),
              !.window = Append(@, timeSpent)]

\* the callback of the stats interval
resetStats(s) ==
    [s EXCEPT !.minTime = Infinity, !.maxTime = 0, !.window = <<>>]

\* ---------------------------------------------------- transport listeners
\* `this` inside the "message" listener: an EventEmitter (child process,
\* worker thread) calls it with the worker as `this`; the browser adapter
\* calls callback(message.data), and `this` is undefined in strict mode
listenerThis == IF workerType = "web" THEN "undefined" ELSE "worker"

\* this.maxExec && this.responseCount >= this.maxExec, as the listener
\* evaluates it: the worker object has no maxExec property
listenerMaxExecReached ==
    IF listenerThis = "undefined" THEN ErrTypeError ELSE "false"

onReadyMessage(s) ==
    IF s.terminated THEN s
    ELSE dispatchQueuedRequests(
             onWorkerReady([clearReadyTimeout(s) EXCEPT !.ready = TRUE]))

\* the message listener without the line that removes the answered task
\* from the in-flight table
onResponseKeepsTask(s, id, kind) ==
    IF s.terminated \/ id \notin s.processing THEN Did(s, "ignore", id, NoErr)
    ELSE IF kind = "event" THEN Did(s, "on", id, NoErr)
    ELSE LET c1 == [recordTime(s, now - s.started[id])
                      EXCEPT !.responseCount = @ + 1]
             c2 == IF markNotReadyAfterExec
                   THEN setReadyTimeout([c1 EXCEPT !.ready = FALSE],
                                        readyTimeoutDuration)
                   ELSE c1
             c5 == IF c2.terminating THEN terminate(c2, FALSE, NoCallback)
                   ELSE c2
         IN  IF listenerMaxExecReached = ErrTypeError
             THEN [Did(c2, "throw", 0, ErrTypeError) EXCEPT !.threw = TRUE]
             ELSE IF c5.threw THEN c5
             ELSE settle(c5, id, IF kind = "error" THEN ErrTask ELSE "resolved")

\* a message that is not "ready"; kind is "result", "error" or "event".  A
\* terminated handler, and one that has no task of that id in flight,
\* ignores it; an event goes to the task's options.on
onResponse(s, id, kind) ==
    IF s.terminated \/ id \notin s.processing THEN Did(s, "ignore", id, NoErr)
    ELSE IF kind = "event" THEN Did(s, "on", id, NoErr)
    ELSE LET c1 == [recordTime(s, now - s.started[id])
                      EXCEPT !.responseCount = @ + 1]
             c2 == IF markNotReadyAfterExec
                   THEN setReadyTimeout([c1 EXCEPT !.ready = FALSE],
                                        readyTimeoutDuration)
                   ELSE c1
             c3 == [c2 EXCEPT !.processing = @ \ {id}]
             c4 == IF listenerMaxExecReached = "true"
                   THEN onWorkerExit([c3 EXCEPT !.terminating = TRUE])
                   ELSE c3
             c5 == IF c4.terminating THEN terminate(c4, FALSE, NoCallback)
                   ELSE c4
         IN  IF listenerMaxExecReached = ErrTypeError
             THEN [Did(c3, "throw", 0, ErrTypeError) EXCEPT !.threw = TRUE]
             ELSE IF c5.threw THEN c5
             ELSE settle(c5, id, IF kind = "error" THEN ErrTask ELSE "resolved")

onError(s, error) ==
    onWorkerExit(clearProcessing(
        rejectAll([s EXCEPT !.terminated = TRUE], s.processing, error)))

\* the once("exit") listeners terminate registered, in registration order
RECURSIVE onceExit(_, _)
onceExit(s, n) ==
    IF n = 0 THEN s
    ELSE LET c == [s EXCEPT !.exitTimers = IF @ > 0 THEN @ - 1 ELSE 0,
                            !.exitListeners = @ - 1,
                            !.killed = IF s.hasWorker THEN TRUE ELSE @]
         IN  onceExit(cleanup(c, NoErr), n - 1)

\* the "exit" event: the constructor's listener first, then terminate's
onExit(s) == onceExit(onError(s, ErrUnexpectedExit), s.exitListeners)

\* a cleanExitTimeout callback that leaves the worker alone
onCleanExitTimeoutSparesWorker(s) == [s EXCEPT !.exitTimers = @ - 1]

\* the cleanExitTimeout callback
onCleanExitTimeout(s) ==
    LET c == [s EXCEPT !.exitTimers = @ - 1]
    IN  IF c.hasWorker THEN kill(c) ELSE c

\* ------------------------------------------------------- the state machine
Concurrencies == {1, 2}
MaxExecs == {0, 1}
Durations == {0, 1}
NotifyTimeouts == Durations \ {0}

\* the option sets a handler is built with: every combination of worker
\* type, concurrency, script, markNotReadyAfterExec and readiness timeout
\* without maxExec, and maxExec with every worker type and concurrency
Options ==
    LET all == [workerType : WorkerTypes, concurrency : Concurrencies,
                hasScript : BOOLEAN, markNotReadyAfterExec : BOOLEAN,
                readyTimeoutDuration : Durations, maxExec : MaxExecs]
    IN  {o \in all :
           o.maxExec = 0 \/ (~o.hasScript /\ ~o.markNotReadyAfterExec
                              /\ o.readyTimeoutDuration = 0)}

\* the handler as its constructor leaves it.  The owner supplies
\* onWorkerExit and gives no initReadyTimeoutDuration, which then is
\* readyTimeoutDuration; a handler built without a script is ready at once.
Init ==
    /\ \E o \in Options :
         /\ workerType = o.workerType
         /\ hasScript = o.hasScript
         /\ concurrency = o.concurrency
         /\ maxExec = o.maxExec
         /\ markNotReadyAfterExec = o.markNotReadyAfterExec
         /\ readyTimeoutDuration = o.readyTimeoutDuration
    /\ initReadyTimeoutDuration = readyTimeoutDuration
    /\ hasWorker = TRUE
    /\ ready = ~hasScript
    /\ killed = FALSE
    /\ terminating = FALSE
    /\ terminated = FALSE
    /\ terminationHandler = NoCallback
    /\ onWorkerExitCb = TRUE
    /\ readyTimeoutTimer = (initReadyTimeoutDuration # 0)
    /\ requestQueue = <<>>
    /\ processing = {}
    /\ lastId = 0
    /\ requestCount = 0
    /\ responseCount = 0
    /\ started = [i \in TaskIds |-> 0]
    /\ totalTime = 0
    /\ minTime = Infinity
    /\ maxTime = 0
    /\ lastTime = 0
    /\ recorded = <<>>
    /\ window = <<>>
    /\ now = 0
    /\ exitListeners = 0
    /\ exitTimers = 0
    /\ sent = <<>>
    /\ workerExited = FALSE
    /\ errorEvents = 0
    /\ promise = [i \in TaskIds |-> "unused"]
    /\ future = [i \in TaskIds |-> "unused"]
    /\ notifyFuture = [n \in CallIds |-> "unused"]
    /\ notifyTimeout = [n \in CallIds |-> 0]
    /\ notifyElapsed = [n \in CallIds |-> FALSE]
    /\ settleCalls = [i \in TaskIds |-> 0]
    /\ callbackCalls = [c \in Callbacks \ {NoCallback} |-> 0]
    /\ onWorkerExitCalls = 0
    /\ calls = 0
    /\ steps = 0
    /\ effects = <<>>

envVars == <<workerExited, errorEvents, now, notifyTimeout, notifyElapsed>>

\* one more handler runs
Tick == steps < MaxSteps /\ steps' = steps + 1

Exec ==
    /\ Tick
    /\ calls < MaxCalls
    /\ calls' = calls + 1
    /\ Install(exec(Self))
    /\ UNCHANGED <<optionVars, envVars>>

\* the owner calls terminate(force) or terminate(force, callback)
TerminateCall(force, withCallback) ==
    /\ Tick
    /\ calls < MaxCalls
    /\ calls' = calls + 1
    /\ Install(terminate(Self, force,
                         IF withCallback
                         THEN [kind |-> "user", n |-> calls + 1]
                         ELSE NoCallback))
    /\ UNCHANGED <<optionVars, envVars>>

Terminate == \E force \in BOOLEAN, withCallback \in BOOLEAN :
                 TerminateCall(force, withCallback)

\* the owner calls terminateAndNotify(force, timeout) with a timeout (without
\* one the call is terminate with a callback).  The source assigns the
\* timeout to the property promise.timeout: no timer is armed.
TerminateAndNotifyCall(force, timeout) ==
    /\ Tick
    /\ calls < MaxCalls
    /\ calls' = calls + 1
    /\ LET n == calls + 1
       IN  /\ Install(terminate([Self EXCEPT !.notifyFuture[n] = "pending"],
                                force, [kind |-> "notify", n |-> n]))
           /\ notifyTimeout' = [notifyTimeout EXCEPT ![n] = timeout]
    /\ UNCHANGED <<optionVars, workerExited, errorEvents, now, notifyElapsed>>

TerminateAndNotify == \E force \in BOOLEAN, timeout \in NotifyTimeouts :
                          TerminateAndNotifyCall(force, timeout)

\* the timeout given to terminateAndNotify call n elapses; the handler has
\* armed nothing that would run now
NotifyTimeoutElapsesFor(n) ==
    /\ Tick
    /\ notifyTimeout[n] # 0
    /\ ~notifyElapsed[n]
    /\ notifyElapsed' = [notifyElapsed EXCEPT ![n] = TRUE]
    /\ effects' = <<>>
    /\ UNCHANGED <<optionVars, hasWorker, ready, killed, terminating,
                   terminated, terminationHandler, onWorkerExitCb,
                   readyTimeoutTimer, requestQueue, processing, lastId,
                   requestCount, responseCount, started, totalTime,
                   minTime, maxTime, lastTime, exitListeners, exitTimers,
                   sent, promise, future, notifyFuture, settleCalls,
                   callbackCalls, onWorkerExitCalls, recorded, window,
                   workerExited, errorEvents, now, notifyTimeout, calls>>

NotifyTimeoutElapses == \E n \in CallIds : NotifyTimeoutElapsesFor(n)

\* the caller cancels pending task id, or the task's timeout expires
CancelTask(id, error) ==
    /\ Tick
    /\ calls < MaxCalls
    /\ calls' = calls + 1
    /\ promise[id] = "pending"
    /\ Install(onCancel(Self, id, error))
    /\ UNCHANGED <<optionVars, envVars>>

Cancel == \E id \in TaskIds, error \in {ErrCancellation, ErrTimeout} :
              CancelTask(id, error)

\* the worker emits "ready" (only a worker started from a script does)
WorkerReady ==
    /\ Tick
    /\ hasScript
    /\ ~workerExited
    /\ Install(onReadyMessage(Self))
    /\ UNCHANGED <<optionVars, envVars, calls>>

Requested == {sent[i] : i \in 1..Len(sent)} \ {TERMINATE_METHOD_ID}

\* the worker answers request id, which it has received
Respond(id, kind) ==
    /\ Tick
    /\ ~workerExited
    /\ id \in Requested
    /\ Install(onResponse(Self, id, kind))
    /\ UNCHANGED <<optionVars, envVars, calls>>

WorkerResponse == \E id \in TaskIds, kind \in {"result", "error", "event"} :
                      Respond(id, kind)

WorkerError ==
    /\ Tick
    /\ errorEvents < MaxErrors
    /\ Install(onError(Self, ErrTransport))
    /\ errorEvents' = errorEvents + 1
    /\ UNCHANGED <<optionVars, workerExited, now, notifyTimeout,
                   notifyElapsed, calls>>

\* a child process or a worker thread exits (a web worker has no such event)
WorkerExit ==
    /\ Tick
    /\ workerType # "web"
    /\ ~workerExited
    /\ Install(onExit(Self))
    /\ workerExited' = TRUE
    /\ UNCHANGED <<optionVars, errorEvents, now, notifyTimeout,
                   notifyElapsed, calls>>

\* the readiness timer expires: me.terminate()
ReadyTimeout ==
    /\ Tick
    /\ readyTimeoutTimer
    /\ Install(terminate(Self, FALSE, NoCallback))
    /\ UNCHANGED <<optionVars, envVars, calls>>

CleanExitTimeout ==
    /\ Tick
    /\ exitTimers > 0
    /\ Install(onCleanExitTimeout(Self))
    /\ UNCHANGED <<optionVars, envVars, calls>>

Next ==
    \/ Exec
    \/ Terminate
    \/ TerminateAndNotify
    \/ NotifyTimeoutElapses
    \/ Cancel
    \/ WorkerReady
    \/ WorkerResponse
    \/ WorkerError
    \/ WorkerExit
    \/ ReadyTimeout
    \/ CleanExitTimeout

Spec == Init /\ [][Next]_vars

\* ----------------------------------------------- the handler and its clock
\* Spec is the handler within one millisecond and one stats interval: the
\* clock and the interval touch only started, the four stats fields and
\* what is measured from them, which no other handler reads.  StatsSpec
\* lets the clock run and the interval fire.
\* a millisecond passes
ClockAdvance ==
    /\ now < MaxTime
    /\ now' = now + 1
    /\ UNCHANGED <<optionVars, handlerVars, workerExited, errorEvents,
                   notifyTimeout, notifyElapsed, calls, steps>>

\* the stats interval fires
StatsReset ==
    /\ Install(resetStats(Self))
    /\ UNCHANGED <<optionVars, envVars, calls, steps>>

\* a handler of concurrency 2 without a script, readiness timeout or
\* maxExec, while the clock runs and the stats interval fires: every action
\* of the handler but the "ready" message and the readiness timer, which
\* such a handler never sees
StatsInit ==
    /\ Init
    /\ ~hasScript
    /\ ~markNotReadyAfterExec
    /\ readyTimeoutDuration = 0
    /\ maxExec = 0
    /\ concurrency = 2

StatsNext ==
    \/ Exec
    \/ Terminate
    \/ TerminateAndNotify
    \/ NotifyTimeoutElapses
    \/ Cancel
    \/ WorkerResponse
    \/ WorkerError
    \/ WorkerExit
    \/ CleanExitTimeout
    \/ ClockAdvance
    \/ StatsReset

StatsSpec == StatsInit /\ [][StatsNext]_vars

\* ==================================================================
\* Properties
\* ==================================================================
TaskErrors == {ErrCancellation, ErrTimeout}

\* the steps of the substrate shutdown and of cleanup, as effects
IsShutdownEffect(e) ==
    \/ e.k \in {"kill", "terminate", "cleanup"}
    \/ e.k \in {"send", "queue"} /\ e.id = TERMINATE_METHOD_ID

NoShutdown(es) == \A i \in 1..Len(es) : ~IsShutdownEffect(es[i])

\* es begins with one rejection with err for each task of ids, in ascending
\* order of id, then the clearing of the table, and rejects nothing after
RejectsThenClears(es, ids, err) ==
    LET n == Cardinality(ids)
    IN  /\ Len(es) > n
        /\ \A i \in 1..n : es[i].k = "reject" /\ es[i].e = err
        /\ {es[i].id : i \in 1..n} = ids
        /\ es[n + 1].k = "clear"
        /\ \A i \in (n + 2)..Len(es) : es[i].k \notin {"reject", "resolve"}

\* C1: the handler invokes resolve or reject at most once on the resolver
\* of every task, whatever the interleaving of calls and events.
C1_SettledOnce == \A id \in TaskIds : settleCalls[id] <= 1

\* C2: when the readiness timer expires while the handler still waits for
\* "ready", every task then in the in-flight table is rejected and the table
\* is empty afterwards, however many tasks are in flight.
C2_ReadyTimeoutRejectsInFlight ==
    [][ReadyTimeout /\ ~ready =>
         /\ \A id \in processing : settleCalls'[id] > settleCalls[id]
         /\ processing' = {}]_vars

\* C3: with maxExec = k > 0, once the k-th terminal response has been
\* processed the handler is terminating (or, being idle, terminated) and
\* onWorkerExit has fired.
C3_MaxExecRetires ==
    (maxExec > 0 /\ responseCount >= maxExec)
        => (terminating \/ terminated) /\ onWorkerExitCalls >= 1

\* C4: a graceful terminate, called by the owner or resumed by the response
\* listener, that finds the in-flight table non-empty only sets terminating:
\* no termination signal is sent or queued, nothing is killed or cleaned up.
C4_GracefulDrains ==
    [][/\ (\E wc \in BOOLEAN : TerminateCall(FALSE, wc)) /\ processing # {}
          => NoShutdown(effects') /\ terminating'
       /\ (\E id \in TaskIds, kind \in {"result", "error"} : Respond(id, kind))
            /\ processing' # {}
          => NoShutdown(effects')]_vars

\* C5: terminate(true), called by the owner directly, through
\* terminateAndNotify or by exec's cancellation handler, first rejects every
\* task of the in-flight table with "Worker terminated" and empties the
\* table, and only then shuts the substrate down and cleans up.
C5_ForceRejectsBeforeShutdown ==
    [][/\ (\/ \E wc \in BOOLEAN : TerminateCall(TRUE, wc)
           \/ \E d \in NotifyTimeouts : TerminateAndNotifyCall(TRUE, d))
          => /\ RejectsThenClears(effects', processing, ErrWorkerTerminated)
             /\ processing' = {}
       /\ \A id \in TaskIds :
            (\E error \in TaskErrors : CancelTask(id, error))
          => /\ RejectsThenClears(effects', processing \ {id},
                                  ErrWorkerTerminated)
             /\ processing' = {}]_vars

\* C5 witness: two tasks whose requests still sit in the pending-request
\* queue have been rejected by terminate(true), which then shut down.
C5_Witness ==
    /\ Len(effects) >= 4
    /\ effects[1] = Effect("reject", 1, ErrWorkerTerminated)
    /\ effects[2] = Effect("reject", 2, ErrWorkerTerminated)
    /\ effects[3].k = "clear"
    /\ IsShutdownEffect(effects[4])
    /\ Len(requestQueue) >= 2
    /\ processing = {}

\* es rejects task id with err
Rejects(es, id, err) ==
    \E i \in 1..Len(es) : es[i] = Effect("reject", id, err)

\* C6: a transport "error" or "exit" event rejects every task of the
\* in-flight table with the one error of the event, empties the table, sets
\* terminated and has onWorkerExit fired; an error response rejects the
\* future of the task it names and touches no other task.
C6_TransportCascadesTaskErrorIsolated ==
    [][/\ WorkerError \/ WorkerExit
          => /\ \E err \in {ErrTransport, ErrUnexpectedExit} :
                  \A id \in processing : Rejects(effects', id, err)
             /\ processing' = {}
             /\ terminated'
             /\ onWorkerExitCalls' >= 1
       /\ \A id \in TaskIds :
            Respond(id, "error") /\ ~terminated /\ id \in processing
          => /\ promise'[id] = ErrTask
             /\ \A j \in TaskIds \ {id} :
                  /\ promise'[j] = promise[j]
                  /\ settleCalls'[j] = settleCalls[j]
                  /\ (j \in processing <=> j \in processing')]_vars

\* the outcomes C7 allows the promise exec returned to a cancelled task
CancelledTaskInOrder(allowed(_)) ==
    \A id \in TaskIds :
        promise'[id] \in TaskErrors
        => /\ id \notin processing'
           /\ future'[id] \in allowed(promise'[id])
           /\ (future'[id] # "pending" => terminated')

CancelForceTerminates ==
    \A id \in TaskIds :
        (\E error \in TaskErrors : CancelTask(id, error))
        => /\ processing' = {}
           /\ \A j \in processing \ {id} :
                Rejects(effects', j, ErrWorkerTerminated)

OriginalErrorOnly(e) == {"pending", e}
OriginalOrTerminationError(e) == {"pending", e, ErrAlreadyKilled}

C8_CallbackAtMostOnce ==
    \A cb \in Callbacks \ {NoCallback} : callbackCalls[cb] <= 1

\* C9: the owner's onWorkerExit callback is invoked at most once in the
\* handler's lifetime.
C9_OnWorkerExitAtMostOnce == onWorkerExitCalls <= 1

\* C9 witness: an "error" event and then the "exit" event have both run
\* onError, and the callback has fired once.
C9_Witness ==
    /\ errorEvents >= 1
    /\ workerExited
    /\ onWorkerExitCalls = 1

\* C10: once the timeout given to terminateAndNotify has elapsed, the
\* promise it returned is no longer pending.
C10_NotifyTimeoutBoundsWait ==
    \A n \in CallIds : notifyElapsed[n] => notifyFuture[n] # "pending"

\* C11: an exec on a terminated handler rejects its resolver at once with
\* "Worker is terminated", sends nothing and queues nothing; and terminated,
\* once true, stays true.
C11_TerminatedRejectsExec ==
    [][/\ Exec /\ terminated
          => /\ effects' = <<Effect("reject", lastId + 1, ErrIsTerminated)>>
             /\ promise'[lastId + 1] = ErrIsTerminated
             /\ future'[lastId + 1] = ErrIsTerminated
             /\ sent' = sent
             /\ requestQueue' = requestQueue
       /\ terminated => terminated']_vars

\* C11 witness: a handler that cleanup terminated (its worker is gone) has
\* rejected the exec of task 1.
C11_Witness ==
    /\ terminated /\ ~hasWorker
    /\ effects = <<Effect("reject", 1, ErrIsTerminated)>>
    /\ promise[1] = ErrIsTerminated
    /\ sent = <<>> /\ requestQueue = <<>>

IsPrefix(p, q) == Len(p) <= Len(q) /\ SubSeq(q, 1, Len(p)) = p

\* no request (the termination message aside) occurs twice in q
NoRequestTwice(q) ==
    \A i, j \in 1..Len(q) :
        (i # j /\ q[i] # TERMINATE_METHOD_ID) => q[i] # q[j]

\* C12: an exec on a handler that is not ready appends its request to the
\* pending-request queue and sends nothing; the "ready" message, processed by
\* a handler that is not terminated, sends the whole queue in its order and
\* leaves it empty; nothing leaves the queue otherwise, and no request is
\* ever sent or queued twice.
C12_QueuedRequestsSentInOrderOnReady ==
    [][/\ Exec /\ ~terminated /\ ~ready
          => /\ requestQueue' = Append(requestQueue, lastId + 1)
             /\ sent' = sent
       /\ WorkerReady /\ ~terminated
          => /\ sent' = sent \o requestQueue
             /\ requestQueue' = <<>>
       /\ ~WorkerReady => IsPrefix(requestQueue, requestQueue')
       /\ NoRequestTwice(sent' \o requestQueue')]_vars

\* C12 witness: tasks 1 and 2, submitted before "ready", have just been
\* sent by the "ready" message, in that order.
C12_Witness ==
    /\ effects = <<Effect("onWorkerReady", 0, NoErr),
                   Effect("send", 1, NoErr), Effect("send", 2, NoErr)>>
    /\ sent = <<1, 2>>
    /\ requestQueue = <<>>

\* C13: an event message for a task in flight is handed to the task's
\* options.on in the step that delivers it, and settles nothing, changes no
\* counter and leaves the task in flight; a terminal response removes the
\* task from the in-flight table, a removed task never returns to it, and a
\* message for a task that is not in flight reaches neither sink nor resolver.
C13_EventsThenTerminalThenNothing ==
    [][\A id \in TaskIds :
         /\ Respond(id, "event") /\ ~terminated /\ id \in processing
            => /\ effects' = <<Effect("on", id, NoErr)>>
               /\ promise' = promise
               /\ settleCalls' = settleCalls
               /\ responseCount' = responseCount
               /\ requestCount' = requestCount
               /\ processing' = processing
         /\ (\E kind \in {"result", "error"} : Respond(id, kind))
              /\ ~terminated /\ id \in processing
            => id \notin processing'
         /\ id <= lastId /\ id \notin processing => id \notin processing'
         /\ (\E kind \in {"result", "error", "event"} : Respond(id, kind))
              /\ id \notin processing
            => /\ effects' = <<Effect("ignore", id, NoErr)>>
               /\ promise' = promise
               /\ settleCalls' = settleCalls]_vars

\* C13 witness: task 1 was resolved by its result, and a later message
\* carrying its id has just been ignored by the live handler.
C13_Witness ==
    /\ effects = <<Effect("ignore", 1, NoErr)>>
    /\ promise[1] = "resolved"
    /\ settleCalls[1] = 1
    /\ ~terminated

\* C14: the first id a handler allocates is 1; every exec, whatever the
\* state of the handler, allocates the id after the last one, an id no task
\* has had before, and nothing else changes the last id.
C14_IdsStrictlyIncrease ==
    /\ lastId = 0
    /\ [][/\ lastId' # lastId => Exec
          /\ Exec => /\ lastId' = lastId + 1
                      /\ promise[lastId'] = "unused"
                      /\ promise'[lastId'] # "unused"
                      /\ effects'[1].id = lastId']_vars

\* C14 witness: task 1 was submitted before "ready" and queued, the handler
\* went terminating and then terminated, and the exec after that got id 2.
C14_Witness ==
    /\ terminating /\ terminated /\ ~ready
    /\ requestQueue = <<1>>
    /\ lastId = 2
    /\ effects = <<Effect("reject", 2, ErrIsTerminated)>>

\* C15: available() is true exactly when the handler is not terminated, not
\* terminating, ready, under its maxExec cap and has fewer tasks in flight
\* than its concurrency; and an exec on an available handler sends its
\* request to the transport and does not queue it.
C15_AvailableMeansExecSends ==
    /\ [](available(Self) <=>
             /\ ~terminated
             /\ ~terminating
             /\ ready
             /\ (maxExec = 0 \/ requestCount < maxExec)
             /\ Cardinality(processing) < concurrency)
    /\ [][Exec /\ available(Self)
           => /\ effects' = <<Effect("send", lastId + 1, NoErr)>>
              /\ sent' = Append(sent, lastId + 1)
              /\ requestQueue' = requestQueue]_vars

\* C15 witness: a handler of concurrency 2 with task 1 in flight was
\* available, and the exec of task 2 has sent its request.
C15_Witness ==
    /\ concurrency = 2 /\ maxExec = 0
    /\ ready /\ ~terminating /\ ~terminated
    /\ processing = {1, 2}
    /\ requestQueue = <<>>
    /\ effects = <<Effect("send", 2, NoErr)>>

\* terminate has started to shut a child process down: the termination
\* message has been sent or sits in the pending-request queue
ShutdownStarted ==
    /\ workerType = "process"
    /\ \/ \E i \in 1..Len(sent) : sent[i] = TERMINATE_METHOD_ID
       \/ \E i \in 1..Len(requestQueue) :
              requestQueue[i] = TERMINATE_METHOD_ID

\* C16: while a child process that is being shut down has neither exited
\* nor been killed, a fallback timer is armed, and when it fires it invokes
\* kill(); when the exit is observed first, every armed fallback timer is
\* cancelled, kill() is not invoked, and cleanup leaves the handler
\* terminated without a worker.
C16_FallbackKillOrCleanExit ==
    /\ [](ShutdownStarted /\ ~workerExited /\ ~killed => exitTimers > 0)
    /\ [][/\ CleanExitTimeout /\ ~workerExited /\ ~killed
              => /\ effects' = <<Effect("kill", 0, NoErr)>>
                 /\ killed'
          /\ WorkerExit /\ exitListeners > 0
              => /\ exitTimers' = 0
                 /\ \A i \in 1..Len(effects') : effects'[i].k # "kill"
                 /\ \E i \in 1..Len(effects') : effects'[i].k = "cleanup"
                 /\ terminated' /\ ~hasWorker' /\ ~terminating']_vars

\* C16 witness: the child process did not exit after the termination
\* message was sent, and the fallback timer has killed it.
C16_Witness ==
    /\ ShutdownStarted
    /\ ~workerExited
    /\ effects = <<Effect("kill", 0, NoErr)>>
    /\ killed
    /\ exitTimers = 0

\* C17: a terminated handler has no task in its in-flight table.
C17_TerminatedHasNoTaskInFlight == terminated => processing = {}

\* C18: terminate(false, callback) on a live handler with a task in flight
\* only sets terminating; the terminal response of the last task in flight then
\* resumes the termination: the substrate is shut down, the handler (a child
\* process aside, which is terminated when its exit is observed) is
\* terminated with terminating cleared, the callback has fired with no
\* error, and the task is settled with the worker's result or error.
C18_GracefulTerminateResumesOnLastResponse ==
    [][/\ TerminateCall(FALSE, TRUE) /\ ~terminated /\ processing # {}
          => /\ terminating' /\ ~terminated'
             /\ NoShutdown(effects')
       /\ \A id \in TaskIds, kind \in {"result", "error"} :
            /\ Respond(id, kind)
            /\ terminating /\ ~terminated /\ processing = {id}
            /\ terminationHandler.kind = "user"
          => /\ \E i \in 1..Len(effects') : IsShutdownEffect(effects'[i])
             /\ workerType # "process"
                => /\ terminated' /\ ~terminating'
                   /\ Effect("callback_user", terminationHandler.n, NoErr)
                        \in {effects'[i] : i \in 1..Len(effects')}
             /\ promise'[id] = IF kind = "error" THEN ErrTask ELSE "resolved"
             /\ settleCalls'[id] = settleCalls[id] + 1]_vars

\* C19: once the termination message has been sent to a child process or
\* queued for it, available() is false, and an exec neither sends its
\* request nor queues it.
C19_NoTaskBehindTerminationSignal ==
    /\ [](ShutdownStarted => ~available(Self))
    /\ [][Exec /\ ShutdownStarted
           => sent' = sent /\ requestQueue' = requestQueue]_vars

RECURSIVE Sum(_)
Sum(q) == IF q = <<>> THEN 0 ELSE Head(q) + Sum(Tail(q))

\* C20: once a terminal response has been processed since the last stats
\* reset, minTime <= lastTime <= maxTime, minTime and maxTime being the
\* least and the greatest timeSpent of the window and lastTime the latest;
\* and totalTime is the sum of every timeSpent since the construction.
C20_StatsBracketLastTime ==
    /\ window # <<>>
       => /\ minTime.finite
          /\ minTime.value <= lastTime /\ lastTime <= maxTime
          /\ lastTime = window[Len(window)]
          /\ \A i \in 1..Len(window) :
               minTime.value <= window[i] /\ window[i] <= maxTime
    /\ totalTime = Sum(recorded)

\* C20 witness: a response was measured, the stats were reset, and the
\* window since the reset holds one response, slower than the first.
C20_Witness ==
    /\ Len(recorded) = 2
    /\ recorded[1] < recorded[2]
    /\ window = <<recorded[2]>>
    /\ minTime = Finite(lastTime)
    /\ maxTime = lastTime
    /\ totalTime = recorded[1] + recorded[2]

====
